---------------------------- MODULE Spec2Model ----------------------------
(***************************************************************************)
(* The /predict handler of app.py (Flask back end of the coconut yield     *)
(* predictor): request parsing, the per-month loop (month check, None      *)
(* check, prediction date, ensemble_predict) and the yearly aggregate.     *)
(*                                                                         *)
(* JSON values are tagged records [k, v].  ensemble_predict lives in       *)
(* utils/model_utils.py, which is not part of the sources; the handler     *)
(* only looks at three things it can do: return a truthy dict carrying     *)
(* 'ensemble_prediction', return a falsy value, or raise.  Each monthly    *)
(* record carries the outcome the estimator has for it (field est).        *)
(* Floating point values are dyadic rationals n / ValueDenom, for which    *)
(* Python's sum and division are exact wherever a rounding tie can occur;  *)
(* average_prediction is kept in hundredths.                               *)
(***************************************************************************)
EXTENDS Integers, Sequences, FiniteSets

VARIABLES pc, request, i, month, all_predictions, calls, response

vars == <<pc, request, i, month, all_predictions, calls, response>>

(* Longest monthly_data list of a request. *)
MaxMonths == 3

(* ensemble_prediction values are multiples of 1/8 (0.125, 0.375, ...). *)
ValueDenom == 8

---------------------------------------------------------------------------
(* JSON / Python values *)

None == [k |-> "None", v |-> 0]

Unbound == [k |-> "unbound", v |-> 0]

IntVal(n) == [k |-> "int", v |-> n]

(* the float n + 0.5 *)
HalfVal(n) == [k |-> "float", v |-> n]

StrVal == [k |-> "str", v |-> 0]

(* dict insertion order of soil_data followed by weather_data *)
soil_keys == <<"sm_10", "sm_20", "sm_30", "age", "soil_type">>

weather_keys == <<"Temperature", "Humidity", "Rainfall", "Weather Description">>

(* month_data.get(key): None when the key is absent or null *)
Get(month_data, key) ==
    IF key \in month_data.nonnull THEN "value" ELSE "None"

(* month_data.get('Weather Description', 'normal') *)
GetWeatherDescription(month_data) ==
    IF ~month_data.wdKey THEN "normal"
    ELSE IF "Weather Description" \in month_data.nonnull THEN month_data.wd
    ELSE "None"

soil_data(month_data) ==
    [n \in 1..Len(soil_keys) |-> <<soil_keys[n], Get(month_data, soil_keys[n])>>]

weather_data(month_data) ==
    [n \in 1..Len(weather_keys) |->
        <<weather_keys[n],
          IF weather_keys[n] = "Weather Description"
          THEN GetWeatherDescription(month_data)
          ELSE Get(month_data, weather_keys[n])>>]

(* Variant: the None check walks soil_data alone. *)
merged_items_SoilOnly(month_data) == soil_data(month_data)

(* {**soil_data, **weather_data}.items() *)
merged_items(month_data) == soil_data(month_data) \o weather_data(month_data)


---------------------------------------------------------------------------
(* Responses: jsonify({...}), code *)

NoResponse ==
    [status |-> "none", code |-> 0, text |-> "", month |-> Unbound, key |-> "",
     monthly_predictions |-> <<>>, average_prediction |-> 0]

ErrorResponse(code, text, m, key) ==
    [status |-> "error", code |-> code, text |-> text, month |-> m, key |-> key,
     monthly_predictions |-> <<>>, average_prediction |-> 0]

SuccessResponse(preds, avg) ==
    [status |-> "success", code |-> 200, text |-> "", month |-> Unbound, key |-> "",
     monthly_predictions |-> preds, average_prediction |-> avg]

---------------------------------------------------------------------------
(* The steps of one loop iteration *)

(* `not month or not (1 <= month <= 12)`: "invalid" when the condition is   *)
(* true, "ok" when it is false, "raise" when the comparison of a string     *)
(* with an int raises TypeError.                                            *)
MonthCheck(m) ==
    CASE m.k = "None"  -> "invalid"
      [] m.k = "int"   -> IF m.v = 0 \/ ~(1 <= m.v /\ m.v <= 12) THEN "invalid" ELSE "ok"
      [] m.k = "float" -> IF ~(1 <= m.v /\ m.v + 1 <= 12) THEN "invalid" ELSE "ok"
      [] OTHER         -> "raise"

(* Variant: the None check reports the last None item it meets. *)
FirstNone_Last(items) ==
    LET bad == {n \in 1..Len(items) : items[n][2] = "None"}
    IN  IF bad = {} THEN 0 ELSE CHOOSE n \in bad : \A q \in bad : q <= n

(* The validation loop: position of the first item whose value is None, 0  *)
(* when there is none.                                                      *)
FirstNone(items) ==
    LET bad == {n \in 1..Len(items) : items[n][2] = "None"}
    IN  IF bad = {} THEN 0 ELSE CHOOSE n \in bad : \A q \in bad : n <= q

(* pd.Timestamp(year=prediction_year, month=month, day=15) raises unless    *)
(* the year is a valid year and the month an integer of 1..12.              *)
TimestampRaises(yearOk, m) ==
    ~yearOk \/ m.k # "int" \/ ~(m.v \in 1..12)

(* `if prediction:` *)
Truthy(prediction) == prediction.k = "value"

(* The loop goes on to the next record with these locals. *)
Continue(m, preds, cl) ==
    [ret |-> NoResponse, month |-> m, all_predictions |-> preds, calls |-> cl]

(* `return jsonify(...), code` inside the loop *)
Return(r, m, preds, cl) ==
    [ret |-> r, month |-> m, all_predictions |-> preds, calls |-> cl]

(* `except Exception as e` of the loop body: the message reads the local    *)
(* `month`, which holds the month of the last record that had one; while    *)
(* it is still unbound the f-string raises NameError, which the outer       *)
(* `except` turns into a 500.                                               *)
ExceptHandler(m, preds, cl) ==
    IF m.k = "unbound"
    THEN Return(ErrorResponse(500, "exception", Unbound, ""), m, preds, cl)
    ELSE Return(ErrorResponse(400, "Error processing month", m, ""), m, preds, cl)

(* `Invalid month: {month}`, 400 *)
InvalidMonth(m, preds, cl) ==
    Return(ErrorResponse(400, "Invalid month", m, ""), m, preds, cl)

(* Variant: a record with a missing parameter is skipped (`continue`). *)
MissingParameter_Skip(m, key, preds, cl) == Continue(m, preds, cl)

(* `Missing parameter for month {month}: {key}`, 400 *)
MissingParameter(m, key, preds, cl) ==
    Return(ErrorResponse(400, "Missing parameter", m, key), m, preds, cl)

(* `if prediction: all_predictions.append(prediction)` *)
KeepPrediction(preds, m, prediction) ==
    IF Truthy(prediction)
    THEN Append(preds, [month |-> m.v, ensemble_prediction |-> prediction.v])
    ELSE preds

(* One iteration of `for month_data in monthly_data` (the idx-th record),   *)
(* from the locals st = [month, all_predictions, calls]; ret is the         *)
(* response the iteration returns, NoResponse when the loop goes on.        *)
(* calls logs the invocations of ensemble_predict.                          *)
ProcessMonth(st, month_data, idx, yearOk) ==
    IF ~month_data.obj
    THEN (* month_data.get raises AttributeError before `month` is assigned *)
         ExceptHandler(st.month, st.all_predictions, st.calls)
    ELSE
      LET m     == month_data.month
          preds == st.all_predictions
          items == merged_items(month_data)
          bad   == FirstNone(items)
          call  == [idx |-> idx, month |-> m,
                    weather_description |-> weather_data(month_data)[Len(weather_keys)][2],
                    prediction |-> month_data.est]
          cl    == Append(st.calls, call)
      IN
      CASE MonthCheck(m) = "invalid" -> InvalidMonth(m, preds, st.calls)
        [] MonthCheck(m) = "raise"   -> ExceptHandler(m, preds, st.calls)
        [] OTHER ->
             IF bad # 0 THEN MissingParameter(m, items[bad][1], preds, st.calls)
             ELSE IF TimestampRaises(yearOk, m) THEN ExceptHandler(m, preds, st.calls)
             ELSE IF month_data.est.k = "raise" THEN ExceptHandler(m, preds, cl)
             ELSE Continue(m, KeepPrediction(preds, m, month_data.est), cl)

---------------------------------------------------------------------------
(* The aggregate *)

RECURSIVE SumPredictions(_)
(* sum(p['ensemble_prediction'] for p in all_predictions), in 1/ValueDenom *)
SumPredictions(preds) ==
    IF preds = <<>> THEN 0
    ELSE preds[1].ensemble_prediction + SumPredictions(Tail(preds))

(* Variant: the mean is truncated to two decimals. *)
round2_Truncate(num, den) == (100 * num) \div den

(* round(num / den, 2) in hundredths: Python rounds to the nearest          *)
(* hundredth and an exact tie to the even one.                              *)
round2(num, den) ==
    LET n100 == 100 * num
        fl   == n100 \div den
        rem  == n100 % den
    IN  IF 2 * rem < den THEN fl
        ELSE IF 2 * rem > den THEN fl + 1
        ELSE IF fl % 2 = 0 THEN fl ELSE fl + 1

RECURSIVE RunningNumerator(_)
(* numerator of avg = (avg + p) / 2 over 2^(Len - 1) * ValueDenom *)
RunningNumerator(preds) ==
    IF Len(preds) = 1 THEN preds[1].ensemble_prediction
    ELSE RunningNumerator(SubSeq(preds, 1, Len(preds) - 1))
            + preds[Len(preds)].ensemble_prediction * 2 ^ (Len(preds) - 2)

(* Variant: a running mean, avg = (avg + p) / 2, instead of sum / len. *)
AveragePrediction_Running(preds) ==
    round2(RunningNumerator(preds), 2 ^ (Len(preds) - 1) * ValueDenom)

(* 'average_prediction': round(sum(...) / len(all_predictions), 2) *)
AveragePrediction(preds) ==
    round2(SumPredictions(preds), Len(preds) * ValueDenom)

(* Variant: the aggregate without the `if all_predictions` test. *)
Aggregate_AlwaysSuccess(preds) ==
    SuccessResponse(preds, IF preds = <<>> THEN 0 ELSE AveragePrediction(preds))

(* `if all_predictions: ... else: ...` after the loop *)
Aggregate(preds) ==
    IF preds # <<>>
    THEN SuccessResponse(preds, AveragePrediction(preds))
    ELSE ErrorResponse(500, "Failed to generate predictions", Unbound, "")

(* data = request.get_json(); data.get('year', ...);                        *)
(* monthly_data = data.get('monthly_data', []); `if not monthly_data`.      *)
(* A body that is no JSON object makes get_json or data.get raise, which    *)
(* the outer handler turns into a 500.                                      *)
MonthlyData(req) == IF req.monthlyKey THEN req.monthly_data ELSE <<>>

(* Variant: the parse without the `if not monthly_data` test. *)
ParseResponse_NoEmptyCheck(req) ==
    IF req.body # "object" THEN ErrorResponse(500, "exception", Unbound, "")
    ELSE NoResponse

ParseResponse(req) ==
    IF req.body # "object" THEN ErrorResponse(500, "exception", Unbound, "")
    ELSE IF MonthlyData(req) = <<>>
    THEN ErrorResponse(400, "No monthly data provided", Unbound, "")
    ELSE NoResponse

RECURSIVE RunLoop(_, _, _, _)
(* the loop from the (n+1)-th record on, then the aggregate *)
RunLoop(st, md, n, yearOk) ==
    IF n = Len(md) THEN Aggregate(st.all_predictions)
    ELSE LET r == ProcessMonth(st, md[n + 1], n + 1, yearOk)
         IN  IF r.ret # NoResponse THEN r.ret
             ELSE RunLoop([month |-> r.month, all_predictions |-> r.all_predictions,
                           calls |-> r.calls], md, n + 1, yearOk)

(* predict(): the response to a request *)
predict(req) ==
    IF ParseResponse(req) # NoResponse THEN ParseResponse(req)
    ELSE RunLoop([month |-> Unbound, all_predictions |-> <<>>, calls |-> <<>>],
                 MonthlyData(req), 0, req.yearOk)

---------------------------------------------------------------------------
(* Requests *)

FieldKeys == {soil_keys[n] : n \in 1..Len(soil_keys)}
                \cup {weather_keys[n] : n \in 1..Len(weather_keys)}

Value(n) == [k |-> "value", v |-> n]

Falsy == [k |-> "falsy", v |-> 0]

Raises == [k |-> "raise", v |-> 0]

(* A JSON object of monthly_data: its month, the keys that are missing or   *)
(* null, whether it has a 'Weather Description' key at all, and what        *)
(* ensemble_predict does with it.                                           *)
Record(m, nulls, wdKey, est) ==
    [obj |-> TRUE, month |-> m,
     nonnull |-> (FieldKeys \ nulls) \ (IF wdKey THEN {} ELSE {"Weather Description"}),
     wdKey |-> wdKey, wd |-> "rainy", est |-> est]

(* An element of monthly_data that is no JSON object (a number, a string) *)
NonObject ==
    [obj |-> FALSE, month |-> None, nonnull |-> {}, wdKey |-> FALSE, wd |-> "rainy",
     est |-> Falsy]

MonthRecords ==
    { Record(IntVal(1),  {}, TRUE,  Value(1)),
      Record(IntVal(12), {}, FALSE, Value(3)),
      Record(IntVal(2),  {}, TRUE,  Falsy),
      Record(IntVal(3),  {}, TRUE,  Raises),
      Record(IntVal(2),  {"sm_20", "Humidity"}, TRUE, Value(5)),
      Record(IntVal(5),  {"Rainfall", "Weather Description"}, TRUE, Value(5)),
      Record(IntVal(6),  {"Weather Description"}, TRUE, Value(5)),
      Record(IntVal(0),  {"sm_10"}, TRUE, Value(5)),
      Record(IntVal(13), {}, TRUE, Value(5)),
      Record(None,       {"sm_30"}, TRUE, Value(5)),
      Record(HalfVal(1), {}, TRUE, Value(5)),
      Record(StrVal,     {}, TRUE, Value(5)),
      NonObject }

MonthLists == UNION {[1..n -> MonthRecords] : n \in 0..MaxMonths}

Requests ==
    {[body |-> "invalid", yearOk |-> TRUE, monthlyKey |-> FALSE, monthly_data |-> <<>>]}
    \cup {[body |-> "object", yearOk |-> y, monthlyKey |-> TRUE, monthly_data |-> md] :
             y \in BOOLEAN, md \in MonthLists}
    \cup {[body |-> "object", yearOk |-> y, monthlyKey |-> FALSE, monthly_data |-> <<>>] :
             y \in BOOLEAN}

---------------------------------------------------------------------------
(* The handler as a state machine *)

Init ==
    /\ pc = "idle"
    /\ request = [body |-> "invalid", yearOk |-> TRUE, monthlyKey |-> FALSE,
                  monthly_data |-> <<>>]
    /\ i = 0
    /\ month = Unbound
    /\ all_predictions = <<>>
    /\ calls = <<>>
    /\ response = NoResponse

(* A POST /predict arrives.  Every request runs the handler on locals of    *)
(* its own, so one request per behaviour covers them all.                   *)
Receive(req) ==
    /\ pc = "idle"
    /\ pc' = "start"
    /\ request' = req
    /\ i' = 0
    /\ month' = Unbound
    /\ all_predictions' = <<>>
    /\ calls' = <<>>
    /\ response' = NoResponse

(* lines 14-26 *)
Parse ==
    /\ pc = "start"
    /\ response' = ParseResponse(request)
    /\ pc' = IF ParseResponse(request) = NoResponse THEN "loop" ELSE "done"
    /\ UNCHANGED <<request, i, month, all_predictions, calls>>

(* lines 30-75: the next record of the list *)
Iterate ==
    /\ pc = "loop"
    /\ i < Len(MonthlyData(request))
    /\ LET r == ProcessMonth([month |-> month, all_predictions |-> all_predictions,
                              calls |-> calls],
                             MonthlyData(request)[i + 1], i + 1, request.yearOk)
       IN  /\ i' = i + 1
           /\ month' = r.month
           /\ all_predictions' = r.all_predictions
           /\ calls' = r.calls
           /\ response' = r.ret
           /\ pc' = IF r.ret = NoResponse THEN "loop" ELSE "done"
    /\ UNCHANGED request

(* lines 77-91: the list is exhausted *)
Finish ==
    /\ pc = "loop"
    /\ i = Len(MonthlyData(request))
    /\ response' = Aggregate(all_predictions)
    /\ pc' = "done"
    /\ UNCHANGED <<request, i, month, all_predictions, calls>>

Next ==
    \/ pc = "idle" /\ \E req \in Requests : Receive(req)
    \/ Parse
    \/ Iterate
    \/ Finish

Spec == Init /\ [][Next]_vars

(* The step machine computes predict(request). *)
StepsComputePredict == pc = "done" => response = predict(request)

---------------------------------------------------------------------------
(* Vocabulary of the properties, stated on the request rather than on the   *)
(* handler's steps.                                                         *)

RequiredKeys == FieldKeys \ {"Weather Description"}

FieldOrder == <<"sm_10", "sm_20", "sm_30", "age", "soil_type",
                "Temperature", "Humidity", "Rainfall", "Weather Description">>

(* the record has the key with a null value, or lacks a required key *)
IsNull(r, key) ==
    /\ key \notin r.nonnull
    /\ key = "Weather Description" => r.wdKey

MonthInRange(r) == r.month.k = "int" /\ r.month.v \in 1..12

MonthMissingOrOutside(r) ==
    r.month.k = "None" \/ (r.month.k = "int" /\ r.month.v \notin 1..12)

RequiredPresent(r) == \A key \in RequiredKeys : ~IsNull(r, key)

(* the months of the request and the record the handler stopped at *)
Months == MonthlyData(request)

Done == pc = "done" /\ request.body = "object"

LenCalls == Len(calls)

(* a valid year and a list of JSON objects *)
WellFormed ==
    /\ request.yearOk
    /\ \A n \in 1..Len(Months) : Months[n].obj

ReturnedInLoop ==
    /\ Done
    /\ i >= 1
    /\ response.status = "error"
    /\ response.text # "Failed to generate predictions"

(* a month that yields a PredictionResult when processed on its own *)
MonthSucceeds(r) ==
    /\ r.obj /\ MonthInRange(r) /\ RequiredPresent(r)
    /\ ~IsNull(r, "Weather Description")
    /\ request.yearOk
    /\ r.est.k = "value"

(* a missing required field, an invalid month, or ensemble_predict raising *)
MonthFails(r) ==
    /\ r.obj
    /\ \/ ~MonthInRange(r)
       \/ ~RequiredPresent(r)
       \/ r.est.k = "raise"

PredictionOf(r) == [month |-> r.month.v, ensemble_prediction |-> r.est.v]

RECURSIVE SuccessfulPredictions(_)
SuccessfulPredictions(md) ==
    IF md = <<>> THEN <<>>
    ELSE (IF MonthSucceeds(md[1]) THEN <<PredictionOf(md[1])>> ELSE <<>>)
         \o SuccessfulPredictions(Tail(md))

FirstFailing ==
    CHOOSE n \in 1..Len(Months) :
        /\ MonthFails(Months[n])
        /\ \A q \in 1..(n - 1) : ~MonthFails(Months[q])

---------------------------------------------------------------------------
---------------------------------------------------------------------------
(* C2: on success the predictions are exactly the results ensemble_predict  *)
(* produced for the months of the request, in order, every month having     *)
(* been estimated once, and the average is the nearest hundredth to         *)
(* sum / count (the even one at a tie).                                     *)
ProducedResults ==
    LET produced == SelectSeq(calls, LAMBDA c : c.prediction.k = "value")
    IN  [n \in 1..Len(produced) |->
            [month |-> produced[n].month.v,
             ensemble_prediction |-> produced[n].prediction.v]]

IsMeanRoundedTo2(avg, preds) ==
    LET total == SumPredictions(preds)
        den   == Len(preds) * ValueDenom
        err   == 100 * total - avg * den
    IN  /\ 2 * err <= den
        /\ -2 * err <= den
        /\ (2 * err = den \/ -2 * err = den) => avg % 2 = 0

C2_SuccessIsMeanOfResults ==
    (Done /\ response.status = "success")
    => /\ response.monthly_predictions = ProducedResults
       /\ Len(calls) = Len(Months)
       /\ \A n \in 1..Len(calls) : calls[n].idx = n
       /\ IsMeanRoundedTo2(response.average_prediction, response.monthly_predictions)

(* a success whose mean is no whole number of hundredths *)
C2_Witness ==
    /\ Done
    /\ response.status = "success"
    /\ Len(response.monthly_predictions) >= 2
    /\ (100 * SumPredictions(response.monthly_predictions))
          % (Len(response.monthly_predictions) * ValueDenom) # 0

---------------------------------------------------------------------------
(* C3: permuting the month list changes neither the kind of the outcome     *)
(* nor, on success, the average.                                            *)
IndexPermutations(n) ==
    {p \in [1..n -> 1..n] : \A a, b \in 1..n : p[a] = p[b] => a = b}

Permuted(req, p) ==
    [req EXCEPT !.monthly_data = [n \in 1..Len(req.monthly_data) |->
                                     req.monthly_data[p[n]]]]

---------------------------------------------------------------------------
---------------------------------------------------------------------------
(* C5: a success carries at least one prediction (so the mean never divides *)
(* by zero), and a batch none of whose months yields a usable prediction    *)
(* is a failure.                                                            *)
C5_NoEmptySuccess ==
    Done =>
      /\ response.status = "success" => Len(response.monthly_predictions) >= 1
      /\ (\A n \in 1..Len(Months) : ~MonthSucceeds(Months[n]))
            => response.status = "error"

(* every month is estimated and none of the results is usable *)
C5_Witness ==
    /\ Done
    /\ Len(calls) = Len(Months)
    /\ Len(Months) >= 2
    /\ response = ErrorResponse(500, "Failed to generate predictions", Unbound, "")

---------------------------------------------------------------------------
(* C6: a record with a month in range and null fields is rejected with its  *)
(* month and the first null field of the fixed order; a record whose month  *)
(* is missing or outside 1..12 is rejected as an invalid month, naming no   *)
(* field whatever its fields are.                                           *)
FirstNullField(r) ==
    LET n == CHOOSE n \in 1..Len(FieldOrder) :
                /\ IsNull(r, FieldOrder[n])
                /\ \A q \in 1..(n - 1) : ~IsNull(r, FieldOrder[q])
    IN  FieldOrder[n]

C6_ErrorNamesMonthAndFirstField ==
    ReturnedInLoop =>
      LET r == Months[i]
      IN  /\ ( /\ r.obj /\ MonthInRange(r)
               /\ \E key \in FieldKeys : IsNull(r, key) )
             => response = ErrorResponse(400, "Missing parameter", r.month,
                                         FirstNullField(r))
          /\ (r.obj /\ MonthMissingOrOutside(r))
             => response = ErrorResponse(400, "Invalid month", r.month, "")
          /\ response.text = "Missing parameter"
             => /\ r.obj
                /\ response.month = r.month
                /\ IsNull(r, response.key)

(* several null fields, soil and weather, the first of them reported *)
C6_Witness ==
    /\ ReturnedInLoop
    /\ Months[i].obj
    /\ Cardinality({key \in FieldKeys : IsNull(Months[i], key)}) >= 2
    /\ response.text = "Missing parameter"
    /\ response.key = "sm_20"

---------------------------------------------------------------------------
(* C7 as stated: a record with a month in 1..12 and its eight other fields  *)
(* non-null is never rejected by validation, its weather description being  *)
(* absent or null, and an absent description reaches ensemble_predict as    *)
(* "normal".                                                                *)
C7_DescriptionOptional ==
    /\ (ReturnedInLoop /\ WellFormed) =>
         LET r == Months[i]
         IN  (r.obj /\ MonthInRange(r) /\ RequiredPresent(r))
                => response.text \notin {"Missing parameter", "Invalid month"}
    /\ \A c \in 1..LenCalls :
         ~MonthlyData(request)[calls[c].idx].wdKey
            => calls[c].weather_description = "normal"

---------------------------------------------------------------------------
(* C8 as stated: every month processed to the end shows in the response,    *)
(* as a prediction or as an error; a success holds a prediction for every   *)
(* month of the request.                                                    *)
C8_NothingSwallowed ==
    (Done /\ response.status = "success")
    => Len(response.monthly_predictions) = Len(Months)

---------------------------------------------------------------------------
(* C9: ensemble_predict is invoked at most once per record, and only for a  *)
(* record whose month is an integer of 1..12 and whose eight required       *)
(* fields are non-null.                                                     *)
C9_ValidationPrecedesEstimation ==
    /\ \A c \in 1..LenCalls :
         LET r == MonthlyData(request)[calls[c].idx]
         IN  r.obj /\ MonthInRange(r) /\ RequiredPresent(r)
    /\ \A c, d \in 1..LenCalls : calls[c].idx = calls[d].idx => c = d

(* a batch with an estimated record and a record stopped by validation *)
C9_Witness ==
    /\ ReturnedInLoop
    /\ LenCalls >= 1
    /\ Months[i].obj
    /\ ~RequiredPresent(Months[i])
    /\ \A c \in 1..LenCalls : calls[c].idx < i

---------------------------------------------------------------------------
(* C10 as stated: records are processed in input order up to the first      *)
(* failing one k; the response is then an error about record k's month,     *)
(* ensemble_predict has run for the records before k only (and for k when   *)
(* it is its call that raises) and the results are discarded; without a     *)
(* failing record the predictions follow the input order.                   *)
ProcessingFails(r) ==
    \/ ~r.obj
    \/ ~MonthInRange(r)
    \/ \E key \in FieldKeys : IsNull(r, key)
    \/ ~request.yearOk
    \/ r.est.k = "raise"

C10_StopsAtFirstFailure ==
    (Done /\ request.yearOk /\ Months # <<>>) =>
      IF \E n \in 1..Len(Months) : ProcessingFails(Months[n])
      THEN LET k == CHOOSE n \in 1..Len(Months) :
                       /\ ProcessingFails(Months[n])
                       /\ \A q \in 1..(n - 1) : ~ProcessingFails(Months[q])
           IN  /\ response.status = "error"
               /\ response.month = Months[k].month
               /\ response.monthly_predictions = <<>>
               /\ i = k
               /\ \A c \in 1..LenCalls : calls[c].idx = c
               /\ LenCalls \in {k - 1, k}
               /\ LenCalls = k => Months[k].est.k = "raise"
      ELSE /\ response.status = "success" => response.monthly_predictions = ProducedResults
           /\ \A c \in 1..LenCalls : calls[c].idx = c
           /\ LenCalls = Len(Months)

=============================================================================
